---- MODULE Spec2Model ----
(***************************************************************************)
(* Training-loop orchestration of train.py (RockFlow): option handling,    *)
(* checkpoint resume, the STARTED / ITERATION_COMPLETED / EPOCH_COMPLETED  *)
(* handlers registered on the ignite trainer, the learning-rate warmup     *)
(* scheduler and the per-batch step function.                              *)
(*                                                                         *)
(* One training process is modelled at a time; Relaunch ends the current  *)
(* process and starts a new one that resumes from a checkpoint file the    *)
(* earlier processes left on disk.                                         *)
(*                                                                         *)
(* Learning rates are kept as integers in units of args.lr / args.warmup,  *)
(* so the multiplier min(1.0, (e + 1) / warmup) is Min(warmup, e + 1).     *)
(***************************************************************************)
EXTENDS Integers, Sequences, FiniteSets, TLC

\* ------------------------------------------------------------------ bounds
MaxN == 52
SmallN == 4
MaxEpochs == 4
MaxWarmup == 3
MaxInitBatches == 2
MaxGrad == 2
MaxRuns == 2

\* Events.ITERATION_COMPLETED(every=50)
SampleEvery == 50
\* ModelCheckpoint(..., n_saved=1 by default)
NSaved == 1

VARIABLES
    args,           \* parsed command-line options of the running process
    runs,           \* number of processes launched so far
    disk,           \* checkpoint files: path -> contents
    pc,             \* position of the process in main / trainer.run
    hidx,           \* index of the next handler of the event being fired
    modelMode,      \* "train" / "eval" (nn.Module.training)
    actnormInited,  \* the model's actnorm layers are initialised
    optLr,          \* optimizer.param_groups[0]['lr']
    schedLastEpoch, \* scheduler.last_epoch
    resume_iter,    \* integer parsed from the checkpoint file name
    epoch,          \* engine.state.epoch
    iteration,      \* engine.state.iteration
    iterInEpoch,    \* batches of the current epoch already processed
    ckptSaved,      \* checkpoint_handler._saved: paths it wrote and still keeps
    obs             \* what the process has done so far (observations)

vars == <<args, runs, disk, pc, hidx, modelMode, actnormInited, optLr,
          schedLastEpoch, resume_iter, epoch, iteration, iterInEpoch,
          ckptSaved, obs>>

\* ------------------------------------------------------------ arithmetic
Min(a, b) == IF a <= b THEN a ELSE b

Max(a, b) == IF a >= b THEN a ELSE b

Abs(a) == IF a < 0 THEN -a ELSE a

\* ------------------------------------------------- text of file names
DigitChars == <<"0", "1", "2", "3", "4", "5", "6", "7", "8", "9">>

IsDigit(c) == \E i \in 1..10 : DigitChars[i] = c

DigitVal(c) == (CHOOSE i \in 1..10 : DigitChars[i] = c) - 1

\* "{}".format(n) for a non-negative integer
RECURSIVE FormatInt(_)
FormatInt(n) ==
    IF n < 10 THEN <<DigitChars[n + 1]>>
    ELSE FormatInt(n \div 10) \o <<DigitChars[(n % 10) + 1]>>

\* int(s) for a string of decimal digits; -1 stands for ValueError
RECURSIVE ParseDigits(_, _)
ParseDigits(s, acc) ==
    IF s = <<>> THEN acc
    ELSE ParseDigits(Tail(s), acc * 10 + DigitVal(Head(s)))

ParseInt(s) ==
    IF s # <<>> /\ \A i \in 1..Len(s) : IsDigit(s[i])
    THEN ParseDigits(s, 0) ELSE -1

\* index of the last occurrence of c in s, 0 when absent
LastIndexOf(s, c) ==
    IF \E i \in 1..Len(s) : s[i] = c
    THEN CHOOSE i \in 1..Len(s) : s[i] = c /\ \A j \in (i + 1)..Len(s) : s[j] # c
    ELSE 0

\* os.path.splitext(p)[0]: cut at the last "." of the last path component
SplitExtRoot(p) ==
    LET dot == LastIndexOf(p, ".")
        sep == LastIndexOf(p, "/")
    IN  IF dot > sep + 1 THEN SubSeq(p, 1, dot - 1) ELSE p

\* s.split("_")[-1]
LastUnderscorePiece(s) == SubSeq(s, LastIndexOf(s, "_") + 1, Len(s))

\* --------------------------------------------------------------- options
BatchSizes == {2, 3}

\* --output_dir results/run_2.5 : a directory name holding "_" and "."
OutputDir == <<"results", "/", "run", "_", "2", ".", "5">>

ClipOptions == {-1, 0, 1}

\* drop_last=False would keep the incomplete last batch
NumBatches_KeepLast == (args.N + args.batch_size - 1) \div args.batch_size

\* len(train_loader) with drop_last=True
NumBatches == args.N \div args.batch_size

\* a warmup that starts at 0: min(1.0, epoch / args.warmup)
lr_lambda_FromZero(e) == Min(args.warmup, e)

\* lr_lambda = lambda epoch: min(1.0, (epoch + 1) / args.warmup), times warmup
lr_lambda(e) == Min(args.warmup, e + 1)

\* os.path.join(output_dir, 'checkpoints') / "glow" _ "checkpoint" _ <global step> .pth
CheckpointPath(step) ==
    args.output_dir \o <<"/", "checkpoints", "/", "glow", "_", "checkpoint", "_">>
        \o FormatInt(step) \o <<".", "pth">>

\* file_name, _ = os.path.splitext(saved_model); int(file_name.split("_")[-1])
\* (file_name and the piece after the last "_" are each computed once)
ParseResumeIter(path) ==
    CHOOSE n \in { ParseInt(piece) :
                     piece \in { LastUnderscorePiece(file_name) :
                                   file_name \in {SplitExtRoot(path)} } } : TRUE

\* ------------------------------------------------------- step function
\* torch.nn.utils.clip_grad_value_: clamp every gradient entry to [-c, c]
ClipValue(g, c) == Max(-c, Min(c, g))

\* torch.nn.utils.clip_grad_norm_: rescale when the norm exceeds c
ClipNorm(g, c) == IF Abs(g) > c THEN (IF g < 0 THEN -c ELSE c) ELSE g

\* The statements of step(engine, batch), in program order.
StepProgram_ClipAfterUpdate ==
    <<"model.train", "zero_grad", "forward", "backward", "optimizer.step">>
    \o (IF args.max_grad_clip > 0 THEN <<"clip_grad_value_">> ELSE <<>>)
    \o (IF args.max_grad_norm > 0 THEN <<"clip_grad_norm_">> ELSE <<>>)

StepProgram_NoTrainCall ==
    <<"zero_grad", "forward", "backward">>
    \o (IF args.max_grad_clip > 0 THEN <<"clip_grad_value_">> ELSE <<>>)
    \o (IF args.max_grad_norm > 0 THEN <<"clip_grad_norm_">> ELSE <<>>)
    \o <<"optimizer.step">>

StepProgram ==
    <<"model.train", "zero_grad", "forward", "backward">>
    \o (IF args.max_grad_clip > 0 THEN <<"clip_grad_value_">> ELSE <<>>)
    \o (IF args.max_grad_norm > 0 THEN <<"clip_grad_norm_">> ELSE <<>>)
    \o <<"optimizer.step">>

\* Effect of one statement on the state of the step:
\*   modes = [cur: model mode, fwd: mode the forward pass ran in],
\*   grads = [grad: parameter gradient, applied: gradient the update used],
\*   lrUsed, log (the statements executed, model.train aside).
\* g is the gradient the backward pass produces for this batch.
ExecOp(op, st, g) ==
    CASE op = "model.train" ->
            [st EXCEPT !.modes = [cur |-> "train", fwd |-> @.fwd]]
      [] op = "zero_grad" ->
            [st EXCEPT !.log = Append(@, op),
                       !.grads = [grad |-> 0, applied |-> @.applied]]
      [] op = "forward" ->
            [st EXCEPT !.log = Append(@, op),
                       !.modes = [cur |-> @.cur, fwd |-> @.cur]]
      [] op = "backward" ->
            [st EXCEPT !.log = Append(@, op),
                       !.grads = [grad |-> @.grad + g, applied |-> @.applied]]
      [] op = "clip_grad_value_" ->
            [st EXCEPT !.log = Append(@, op),
                       !.grads = [grad |-> ClipValue(@.grad, args.max_grad_clip),
                                  applied |-> @.applied]]
      [] op = "clip_grad_norm_" ->
            [st EXCEPT !.log = Append(@, op),
                       !.grads = [grad |-> ClipNorm(@.grad, args.max_grad_norm),
                                  applied |-> @.applied]]
      [] op = "optimizer.step" ->
            [st EXCEPT !.log = Append(@, op),
                       !.grads = [grad |-> @.grad, applied |-> @.grad],
                       !.lrUsed = optLr]

RECURSIVE ExecOps(_, _, _)
ExecOps(ops, st, g) ==
    IF ops = <<>> THEN st ELSE ExecOps(Tail(ops), ExecOp(Head(ops), st, g), g)

\* ----------------------------------------------------------- handlers
\* Handlers of Events.STARTED, in registration order.
StartedHandlers ==
    IF args.saved_model # <<>> THEN <<"resume_training", "init">> ELSE <<"init">>

\* Handlers of Events.EPOCH_COMPLETED, in registration order.
EpochCompletedHandlers_EvalFirst == <<"evaluate", "checkpoint_handler", "print_times">>

EpochCompletedHandlers == <<"checkpoint_handler", "evaluate", "print_times">>

\* Events.ITERATION_COMPLETED(every=50): filter on engine.state.iteration
EveryFilter_ProcessLocal == obs.stepsRun % SampleEvery = 0

EveryFilter == iteration % SampleEvery = 0

\* Forward pass through the actnorm layers: data-dependent initialisation
\* happens in train mode when the layers are not initialised yet.
ActnormInitialises(inited, mode) == ~inited /\ mode = "train"

\* ---------------------------------------------------------- process state
NoForward == [by |-> "none", mode |-> "train", entry |-> "train"]

NoCheckpoint == [lr |-> 0, epoch |-> 0, iteration |-> 0, nbatches |-> 0]

FreshObs ==
    [ stepLog |-> <<>>, appliedGrad |-> 0, rawGrad |-> 0, lrUsed |-> 0,
      lastFwd |-> NoForward,
      stepsRun |-> 0, optimSteps |-> 0, backwardCalls |-> 0, epochsRun |-> 0,
      schedSteps |-> 0, actnormInits |-> 0, ckptWrites |-> 0,
      lastCkpt |-> <<>>, sampled |-> "none", sampleLabel |-> -1,
      eventLog |-> <<>>, writerClosed |-> FALSE, abortReason |-> "none",
      loaded |-> NoCheckpoint, resumed |-> FALSE, initSamples |-> -1 ]

\* Small training sets with every combination of the options.
ShortRunArgs ==
    [ N : 1..SmallN, batch_size : BatchSizes, epochs : 0..MaxEpochs,
      warmup : 1..MaxWarmup, n_init_batches : 0..MaxInitBatches,
      max_grad_clip : ClipOptions, max_grad_norm : {0, 1},
      output_dir : {OutputDir}, saved_model : {<<>>} ]

\* A training set large enough for the iteration counter to pass the
\* sampling period; the options that do not bear on sampling are fixed.
LongRunArgs ==
    [ N : {MaxN}, batch_size : BatchSizes, epochs : 0..MaxEpochs,
      warmup : {MaxWarmup}, n_init_batches : {1},
      max_grad_clip : {1}, max_grad_norm : {0},
      output_dir : {OutputDir}, saved_model : {<<>>} ]

ArgsSpace == ShortRunArgs \cup LongRunArgs

\* State of a process when main() reaches "load pre-trained model if given":
\* model, optimizer, scheduler, trainer and checkpoint handler are built.
Init ==
    /\ args \in ArgsSpace
    /\ runs = 1
    /\ disk = << >>
    /\ pc = "main"
    /\ hidx = 1
    /\ modelMode = "train"
    /\ actnormInited = FALSE
    /\ optLr = lr_lambda(0)      \* LambdaLR applies lr_lambda(0) when built
    /\ schedLastEpoch = 0
    /\ resume_iter = 0
    /\ epoch = 0
    /\ iteration = 0
    /\ iterInEpoch = 0
    /\ ckptSaved = <<>>
    /\ obs = FreshObs

\* ------------------------------------------------------ engine dispatch
\* After a handler of the event being fired returns: the next handler of the
\* same event, or the engine moves on to `next`.
Dispatch(handlers, next) ==
    IF hidx < Len(handlers)
    THEN /\ hidx' = hidx + 1
         /\ pc' = pc
    ELSE /\ hidx' = 1
         /\ pc' = next

\* An exception leaves trainer.run and main: nothing after it is executed.
Abort(reason, o) ==
    /\ pc' = "aborted"
    /\ hidx' = 1
    /\ obs' = [o EXCEPT !.abortReason = reason]

\* ------------------------------------------------------------------ main
\* model.set_actnorm_init() after model.load_state_dict
ActnormAfterLoad_NotMarked(inited) == inited

ActnormAfterLoad(inited) == TRUE

\* if args.saved_model: load model and optimizer, mark actnorm initialised,
\* parse the resume iteration from the file name.  The scheduler is left as
\* constructed.  Then trainer.run fires STARTED.
LoadSavedModel ==
    /\ pc = "main"
    /\ IF args.saved_model # <<>>
       THEN LET ck == disk[args.saved_model]
                it == ParseResumeIter(args.saved_model)
                o  == [obs EXCEPT !.loaded = ck, !.resumed = TRUE]
            IN  /\ actnormInited' = ActnormAfterLoad(actnormInited)
                /\ optLr' = ck.lr
                /\ resume_iter' = it
                /\ IF it < 0
                   THEN Abort("ValueError", o)
                   ELSE /\ pc' = "started"
                        /\ hidx' = 1
                        /\ obs' = [o EXCEPT !.eventLog = <<>>]
       ELSE /\ pc' = "started"
            /\ hidx' = 1
            /\ obs' = [obs EXCEPT !.eventLog = <<>>]
            /\ UNCHANGED <<actnormInited, optLr, resume_iter>>
    /\ UNCHANGED <<args, runs, disk, modelMode, schedLastEpoch, epoch, iteration,
                   iterInEpoch, ckptSaved>>

\* ------------------------------------------------------ STARTED handlers
\* int(resume_iter / len(engine.state.dataloader))
ResumeEpoch_IterAsEpoch(it, nb) == it

ResumeEpoch(it, nb) == it \div nb

\* engine.state.epoch = ...; engine.state.iteration = resume_iter
resume_training ==
    /\ pc = "started"
    /\ StartedHandlers[hidx] = "resume_training"
    /\ IF NumBatches = 0
       THEN /\ Abort("ZeroDivisionError", obs)
            /\ UNCHANGED <<epoch, iteration>>
       ELSE /\ epoch' = ResumeEpoch(resume_iter, NumBatches)
            /\ iteration' = resume_iter
            /\ obs' = [obs EXCEPT !.eventLog = Append(@, "resume_training")]
            /\ Dispatch(StartedHandlers, "loop")
    /\ UNCHANGED <<args, runs, disk, modelMode, actnormInited, optLr,
                   schedLastEpoch, resume_iter, iterInEpoch, ckptSaved>>

\* islice(train_loader, None, n_init_batches): number of batches collected
InitBatchesCollected == Min(NumBatches, args.n_init_batches)

\* assert init_batches.shape[0] == args.n_init_batches * args.batch_size
InitAssertion_Dropped(shape0) == TRUE

InitAssertion(shape0) == shape0 = args.n_init_batches * args.batch_size

\* init(engine): model.train(); collect the batches; torch.cat (fails on an
\* empty list); the assertion; one forward pass under no_grad.
init ==
    /\ pc = "started"
    /\ StartedHandlers[hidx] = "init"
    /\ modelMode' = "train"
    /\ LET shape0 == InitBatchesCollected * args.batch_size
           o == [obs EXCEPT !.eventLog = Append(@, "init"), !.initSamples = shape0]
           fresh == ActnormInitialises(actnormInited, "train")
       IN  IF InitBatchesCollected = 0
           THEN /\ Abort("torch.cat", [o EXCEPT !.initSamples = -1])
                /\ UNCHANGED actnormInited
           ELSE IF ~InitAssertion(shape0)
           THEN /\ Abort("AssertionError", o)
                /\ UNCHANGED actnormInited
           ELSE /\ actnormInited' = (actnormInited \/ fresh)
                /\ obs' = [o EXCEPT
                             !.lastFwd = [by |-> "init", mode |-> "train",
                                          entry |-> modelMode],
                             !.actnormInits = @ + (IF fresh THEN 1 ELSE 0)]
                /\ Dispatch(StartedHandlers, "loop")
    /\ UNCHANGED <<args, runs, disk, optLr, schedLastEpoch, resume_iter, epoch,
                   iteration, iterInEpoch, ckptSaved>>

\* ------------------------------------------------------------ engine loop
\* while state.epoch < max_epochs: state.epoch += 1; fire EPOCH_STARTED
EpochStarted ==
    /\ pc = "loop"
    /\ epoch < args.epochs
    /\ epoch' = epoch + 1
    /\ iterInEpoch' = 0
    /\ pc' = "batch"
    /\ UNCHANGED <<args, runs, disk, hidx, modelMode, actnormInited, optLr,
                   schedLastEpoch, resume_iter, iteration, ckptSaved, obs>>

\* trainer.run returns; writer.close()
CloseWriter ==
    /\ pc = "loop"
    /\ ~(epoch < args.epochs)
    /\ pc' = "done"
    /\ obs' = [obs EXCEPT !.writerClosed = TRUE]
    /\ UNCHANGED <<args, runs, disk, hidx, modelMode, actnormInited, optLr,
                   schedLastEpoch, resume_iter, epoch, iteration, iterInEpoch,
                   ckptSaved>>

CountOf(log, op) == Cardinality({i \in 1..Len(log) : log[i] = op})

\* State on entry to step(engine, batch).
StepEntry ==
    [modes |-> [cur |-> modelMode, fwd |-> modelMode],
     grads |-> [grad |-> 0, applied |-> 0],
     lrUsed |-> obs.lrUsed, log |-> <<>>]

\* One batch: state.iteration += 1, then step(engine, batch).
step ==
    /\ pc = "batch"
    /\ \E g \in -MaxGrad..MaxGrad :
       \E st \in {ExecOps(StepProgram, StepEntry, g)} :
             /\ modelMode' = st.modes.cur
             /\ obs' = [obs EXCEPT
                          !.stepLog = st.log,
                          !.rawGrad = g,
                          !.appliedGrad = st.grads.applied,
                          !.lrUsed = st.lrUsed,
                          !.lastFwd = [by |-> "step", mode |-> st.modes.fwd,
                                       entry |-> modelMode],
                          !.stepsRun = @ + 1,
                          !.optimSteps = @ + CountOf(st.log, "optimizer.step"),
                          !.backwardCalls = @ + CountOf(st.log, "backward"),
                          !.sampled = "none"]
    /\ iteration' = iteration + 1
    /\ iterInEpoch' = iterInEpoch + 1
    /\ pc' = "iteration_completed"
    /\ UNCHANGED <<args, runs, disk, hidx, actnormInited, optLr, schedLastEpoch,
                   resume_iter, epoch, ckptSaved>>

\* After the ITERATION_COMPLETED handlers: next batch, or EPOCH_COMPLETED.
AfterIteration ==
    IF iterInEpoch < NumBatches
    THEN /\ pc' = "batch"
         /\ hidx' = 1
    ELSE /\ pc' = "epoch_completed"
         /\ hidx' = 1

\* sample(engine): model.eval(); reverse pass under no_grad; the figure is
\* titled and saved under engine.state.iteration.
sample ==
    /\ pc = "iteration_completed"
    /\ EveryFilter
    /\ modelMode' = "eval"
    /\ obs' = [obs EXCEPT
                 !.sampled = "yes",
                 !.stepLog = <<>>, !.rawGrad = 0, !.appliedGrad = 0,
                 !.sampleLabel = iteration,
                 !.lastFwd = [by |-> "sample", mode |-> "eval", entry |-> modelMode],
                 !.eventLog = IF iterInEpoch < NumBatches THEN @ ELSE <<>>,
                 !.epochsRun = IF iterInEpoch < NumBatches THEN @ ELSE @ + 1]
    /\ AfterIteration
    /\ UNCHANGED <<args, runs, disk, actnormInited, optLr, schedLastEpoch,
                   resume_iter, epoch, iteration, iterInEpoch, ckptSaved>>

\* The event filter rejects the iteration: sample is not called.
sample_filtered ==
    /\ pc = "iteration_completed"
    /\ ~EveryFilter
    /\ obs' = [obs EXCEPT
                 !.sampled = "no",
                 !.stepLog = <<>>, !.rawGrad = 0, !.appliedGrad = 0,
                 !.eventLog = IF iterInEpoch < NumBatches THEN @ ELSE <<>>,
                 !.epochsRun = IF iterInEpoch < NumBatches THEN @ ELSE @ + 1]
    /\ AfterIteration
    /\ UNCHANGED <<args, runs, disk, modelMode, actnormInited, optLr,
                   schedLastEpoch, resume_iter, epoch, iteration, iterInEpoch,
                   ckptSaved>>

\* ------------------------------------------------ EPOCH_COMPLETED handlers
\* What torch.save writes: the model and the optimizer state (its lr).  The
\* fields epoch, iteration and nbatches record when the file was written.
CheckpointContents ==
    [lr |-> optLr, epoch |-> epoch, iteration |-> iteration, nbatches |-> NumBatches]

\* The global step the checkpoint handler puts in the file name: the
\* trainer's iteration counter, which resume_training reads back.
CheckpointStep == iteration

RemoveFile(d, path) == [q \in DOMAIN d \ {path} |-> d[q]]

\* checkpoint_handler(engine, {"model": model, "optimizer": optimizer}):
\* save when fewer than n_saved files are kept or the oldest has a lower
\* priority, then drop the oldest file this handler wrote.
checkpoint_handler ==
    /\ pc = "epoch_completed"
    /\ EpochCompletedHandlers[hidx] = "checkpoint_handler"
    /\ LET priority == CheckpointStep
           path == CheckpointPath(priority)
           save == Len(ckptSaved) < NSaved \/ ckptSaved[1].priority < priority
           kept == Append(ckptSaved, [priority |-> priority, path |-> path])
           written == (path :> CheckpointContents) @@ disk
       IN  IF save
           THEN /\ ckptSaved' = IF Len(kept) > NSaved THEN Tail(kept) ELSE kept
                /\ disk' = IF Len(kept) > NSaved
                           THEN RemoveFile(written, kept[1].path)
                           ELSE written
                /\ obs' = [obs EXCEPT !.eventLog = Append(@, "checkpoint_handler"),
                                      !.ckptWrites = @ + 1,
                                      !.lastCkpt = path]
           ELSE /\ obs' = [obs EXCEPT !.eventLog = Append(@, "checkpoint_handler")]
                /\ UNCHANGED <<ckptSaved, disk>>
    /\ Dispatch(EpochCompletedHandlers, "loop")
    /\ UNCHANGED <<args, runs, modelMode, actnormInited, optLr, schedLastEpoch,
                   resume_iter, epoch, iteration, iterInEpoch>>

\* scheduler.step(): last_epoch += 1
SchedulerStep_TrainerEpoch(last) == epoch

SchedulerStep(last) == last + 1

\* evaluate(engine): evaluator.run(test_loader) runs eval_step (model.eval(),
\* forward under no_grad) on the test batches; then scheduler.step().
evaluate ==
    /\ pc = "epoch_completed"
    /\ EpochCompletedHandlers[hidx] = "evaluate"
    /\ modelMode' = "eval"
    /\ schedLastEpoch' = SchedulerStep(schedLastEpoch)
    /\ optLr' = lr_lambda(schedLastEpoch')
    /\ obs' = [obs EXCEPT
                 !.eventLog = Append(@, "evaluate"),
                 !.schedSteps = @ + 1,
                 !.lastFwd = [by |-> "eval_step", mode |-> "eval",
                              entry |-> modelMode]]
    /\ Dispatch(EpochCompletedHandlers, "loop")
    /\ UNCHANGED <<args, runs, disk, actnormInited, resume_iter, epoch, iteration,
                   iterInEpoch, ckptSaved>>

\* print_times(engine): log the time per batch, reset the timer.
print_times ==
    /\ pc = "epoch_completed"
    /\ EpochCompletedHandlers[hidx] = "print_times"
    /\ obs' = [obs EXCEPT !.eventLog = Append(@, "print_times")]
    /\ Dispatch(EpochCompletedHandlers, "loop")
    /\ UNCHANGED <<args, runs, disk, modelMode, actnormInited, optLr,
                   schedLastEpoch, resume_iter, epoch, iteration, iterInEpoch,
                   ckptSaved>>

\* ------------------------------------------------------------- relaunch
\* The process ends (finished, aborted or killed) and the script is started
\* again with --saved_model naming a checkpoint file found on disk.
Relaunch ==
    /\ runs < MaxRuns
    /\ \E f \in DOMAIN disk : args' = [args EXCEPT !.saved_model = f]
    /\ runs' = runs + 1
    /\ pc' = "main"
    /\ hidx' = 1
    /\ modelMode' = "train"
    /\ actnormInited' = FALSE
    /\ optLr' = lr_lambda(0)
    /\ schedLastEpoch' = 0
    /\ resume_iter' = 0
    /\ epoch' = 0
    /\ iteration' = 0
    /\ iterInEpoch' = 0
    /\ ckptSaved' = <<>>
    /\ obs' = FreshObs
    /\ UNCHANGED disk

\* Steps of the running process.
ProcessStep ==
    \/ LoadSavedModel
    \/ resume_training
    \/ init
    \/ EpochStarted
    \/ step
    \/ sample
    \/ sample_filtered
    \/ checkpoint_handler
    \/ evaluate
    \/ print_times
    \/ CloseWriter

Next == ProcessStep \/ Relaunch

Spec == Init /\ [][Next]_vars

\* ======================================================================
\* Properties
\* ======================================================================
Fresh == args.saved_model = <<>>

InLog(log, h) == \E i \in 1..Len(log) : log[i] = h

Prefix(seq, n) == SubSeq(seq, 1, n)

\* The STARTED handlers have all returned and no batch has been processed.
AfterStarted == pc = "loop" /\ obs.stepsRun = 0

\* The init handler has been called in this process.
InitRan ==
    \/ pc \in {"loop", "batch", "iteration_completed", "epoch_completed", "done"}
    \/ pc = "aborted" /\ obs.abortReason \in {"torch.cat", "AssertionError"}

FloorBatches == args.N \div args.batch_size

\* The latest optimizer update belongs to the epoch engine.state.epoch names.
UpdatedThisEpoch ==
    /\ obs.optimSteps > 0
    /\ pc \in {"iteration_completed", "epoch_completed", "loop", "done"}

C2_ClippingOrder ==
    pc = "iteration_completed" =>
        LET log == obs.stepLog
            n == Len(log)
            Pos(op) == CHOOSE i \in 1..n : log[i] = op
            valueOn == args.max_grad_clip > 0
            normOn == args.max_grad_norm > 0
        IN  /\ n = 4 + (IF valueOn THEN 1 ELSE 0) + (IF normOn THEN 1 ELSE 0)
            /\ log[1] = "zero_grad" /\ log[2] = "forward" /\ log[3] = "backward"
            /\ log[n] = "optimizer.step"
            /\ InLog(log, "clip_grad_value_") <=> valueOn
            /\ InLog(log, "clip_grad_norm_") <=> normOn
            /\ valueOn => Pos("clip_grad_value_") = 4
            /\ normOn => Pos("clip_grad_norm_") = n - 1
            /\ valueOn => Abs(obs.appliedGrad) <= args.max_grad_clip
            /\ normOn => Abs(obs.appliedGrad) <= args.max_grad_norm
            /\ (~valueOn /\ ~normOn) => obs.appliedGrad = obs.rawGrad

C2_Witness ==
    /\ pc = "iteration_completed"
    /\ args.max_grad_clip > 0
    /\ args.max_grad_norm > 0
    /\ Abs(obs.rawGrad) > args.max_grad_clip
    /\ obs.appliedGrad # obs.rawGrad

\* ---------------------------------------------------------------- C3
\* C3: a run resumed from the checkpoint written at the completion of epoch
\* k (B batches per epoch) has, after the STARTED handlers, epoch = k and
\* iteration = k * B, both derived from the integer after the last "_" of
\* the file name, and its first batch is iteration k * B + 1 of epoch k + 1.
C3_ResumeRoundTrip ==
    obs.resumed =>
        LET k == obs.loaded.epoch
            B == obs.loaded.nbatches
        IN  /\ resume_iter = obs.loaded.iteration
            /\ B = FloorBatches
            /\ (AfterStarted \/ (pc = "started" /\ InLog(obs.eventLog, "resume_training")))
                  => (epoch = k /\ iteration = k * B)
            /\ (obs.stepsRun = 1 /\ pc = "iteration_completed")
                  => (epoch = k + 1 /\ iteration = k * B + 1)

C3_Witness ==
    /\ obs.resumed
    /\ obs.stepsRun = 1
    /\ pc = "iteration_completed"
    /\ obs.loaded.epoch >= 2
    /\ obs.loaded.iteration >= 10

\* ---------------------------------------------------------------- C4
\* Work left for the running process: a natural number every step lowers.
EpochCost == 2 * NumBatches + 5

Measure ==
    LET left == Max(0, args.epochs - epoch) * EpochCost
    IN  CASE pc \in {"done", "aborted"} -> 0
          [] pc = "loop" -> 1 + left
          [] pc = "epoch_completed" -> 1 + left + (4 - hidx)
          [] pc = "batch" -> 4 + left + 2 * (NumBatches - iterInEpoch)
          [] pc = "iteration_completed" -> 5 + left + 2 * (NumBatches - iterInEpoch)
          [] pc = "started" -> 1 + left + (3 - hidx)
          [] pc = "main" -> 4 + left

\* Epochs a finished process has trained: all of them in a fresh run, those
\* after epoch k in a run resumed at epoch k.
EpochsDue ==
    IF obs.resumed THEN Max(0, args.epochs - obs.loaded.epoch) ELSE args.epochs

\* C4 as stated: every run that has ended, fresh or resumed, has executed
\* its epochs (all of them, or those after the resumed epoch), each of
\* floor(N / batch_size) steps, and has closed the TensorBoard writer.
C4_EveryRunTrainsItsEpochs ==
    pc \in {"done", "aborted"} =>
        /\ obs.epochsRun = EpochsDue
        /\ obs.stepsRun = EpochsDue * FloorBatches
        /\ obs.writerClosed

\* C4 amended: the run always terminates; unless the init handler aborts it
\* at STARTED (torch.cat on no batch, or the batch-count assertion), a fresh
\* run executes exactly `epochs` epochs of floor(N / batch_size) steps each
\* and then closes the writer, and a run resumed at epoch k executes epochs
\* k+1..epochs, none when k >= epochs.  An aborted run trains no epoch and
\* leaves the writer open.
C4_Counts ==
    /\ pc = "done" =>
          /\ obs.epochsRun = EpochsDue
          /\ obs.stepsRun = EpochsDue * FloorBatches
          /\ obs.writerClosed
          /\ epoch = Max(args.epochs, IF obs.resumed THEN obs.loaded.epoch ELSE 0)
    /\ pc = "aborted" =>
          /\ obs.epochsRun = 0 /\ obs.stepsRun = 0 /\ ~obs.writerClosed
          /\ obs.abortReason \in {"torch.cat", "AssertionError"}
    /\ obs.writerClosed => pc = "done"
    /\ obs.stepsRun <= EpochsDue * FloorBatches
    /\ (obs.resumed /\ obs.loaded.epoch >= args.epochs) => obs.stepsRun = 0
    /\ pc \in {"batch", "iteration_completed", "epoch_completed"} => epoch <= args.epochs

\* C4 amended, in full: the counts above hold in every state, no process
\* that has neither finished nor aborted is stuck, and every step of the
\* process lowers Measure, so the run terminates.
C4_TerminatesAndTrainsItsEpochs ==
    /\ [](C4_Counts)
    /\ [](pc \notin {"done", "aborted"} => ENABLED ProcessStep)
    /\ [][ProcessStep => (Measure' < Measure /\ Measure' >= 0)]_vars

C4_Witness ==
    /\ pc = "done"
    /\ obs.resumed
    /\ obs.loaded.epoch < args.epochs
    /\ obs.stepsRun = (args.epochs - obs.loaded.epoch) * FloorBatches
    /\ FloorBatches >= 2

\* ---------------------------------------------------------------- C5
\* C5 as stated: once init has run, if floor(N / batch_size) >=
\* n_init_batches the initialisation data has n_init_batches * batch_size
\* samples and the run proceeds; if the loader yields fewer batches, but at
\* least one, the assertion fails and the run aborts at STARTED before any
\* training step, optimizer update or checkpoint.
C5_AssertionIffEnoughBatches ==
    InitRan =>
        /\ FloorBatches >= args.n_init_batches =>
              /\ pc # "aborted"
              /\ obs.initSamples = args.n_init_batches * args.batch_size
        /\ (1 <= FloorBatches /\ FloorBatches < args.n_init_batches) =>
              /\ pc = "aborted"
              /\ obs.abortReason = "AssertionError"
              /\ obs.stepsRun = 0 /\ obs.optimSteps = 0 /\ obs.ckptWrites = 0

\* C5 amended: for n_init_batches >= 1 the run proceeds past init, with
\* n_init_batches * batch_size samples collected, exactly when
\* floor(N / batch_size) >= n_init_batches; with fewer batches, but at least
\* one, the assertion fails and the run aborts at STARTED before any training
\* step, optimizer update or checkpoint.  With n_init_batches = 0 (or a loader
\* that yields no batch) torch.cat fails on the empty list before the
\* assertion is evaluated, and the run aborts at STARTED as well.
C5_AssertionIffEnoughBatchesNonEmpty ==
    /\ InitRan =>
          /\ (args.n_init_batches >= 1 /\ FloorBatches >= args.n_init_batches) =>
                /\ pc # "aborted"
                /\ obs.initSamples = args.n_init_batches * args.batch_size
          /\ (1 <= FloorBatches /\ FloorBatches < args.n_init_batches) =>
                /\ pc = "aborted"
                /\ obs.abortReason = "AssertionError"
          /\ (args.n_init_batches = 0 \/ FloorBatches = 0) =>
                /\ pc = "aborted"
                /\ obs.abortReason = "torch.cat"
    /\ pc = "aborted" =>
          obs.stepsRun = 0 /\ obs.optimSteps = 0 /\ obs.ckptWrites = 0

C5_Witness ==
    /\ pc = "aborted"
    /\ obs.abortReason = "AssertionError"
    /\ FloorBatches >= 1
    /\ FloorBatches < args.n_init_batches

\* ---------------------------------------------------------------- C6
HandlersInOrder == <<"checkpoint_handler", "evaluate", "print_times">>

\* C6: every epoch completion writes a checkpoint (also into a non-empty
\* directory), the handlers of an epoch completion run in the order
\* checkpoint, evaluate (with scheduler.step), print_times, and the saved
\* optimizer state holds the learning rate used in the epoch just finished.
C6_CheckpointCadenceAndOrder ==
    /\ pc = "epoch_completed" => obs.eventLog = Prefix(HandlersInOrder, hidx - 1)
    /\ (pc = "loop" /\ obs.epochsRun > 0) => obs.eventLog = HandlersInOrder
    /\ obs.ckptWrites = obs.epochsRun
          - (IF pc = "epoch_completed" /\ ~InLog(obs.eventLog, "checkpoint_handler")
             THEN 1 ELSE 0)
    /\ (\/ pc = "epoch_completed" /\ InLog(obs.eventLog, "checkpoint_handler")
        \/ pc \in {"loop", "done"} /\ obs.epochsRun > 0) =>
          /\ obs.lastCkpt \in DOMAIN disk
          /\ disk[obs.lastCkpt].lr = obs.lrUsed
          /\ disk[obs.lastCkpt].epoch = epoch
          /\ disk[obs.lastCkpt].iteration = iteration

C6_Witness ==
    /\ pc = "loop"
    /\ obs.resumed
    /\ obs.ckptWrites >= 1
    /\ obs.lastCkpt \in DOMAIN disk
    /\ Cardinality(DOMAIN disk) >= 2
    /\ disk[obs.lastCkpt].lr # optLr

\* ---------------------------------------------------------------- C7
\* C7: the sample handler runs after an iteration iff engine.state.iteration
\* is then a multiple of 50, in fresh and in resumed runs, and the sample is
\* labelled with that iteration number.
C7_SamplingCadence ==
    /\ obs.sampled = "yes" =>
          (iteration % SampleEvery = 0 /\ obs.sampleLabel = iteration)
    /\ obs.sampled = "no" => iteration % SampleEvery # 0
    /\ obs.sampleLabel # -1 =>
          (obs.sampleLabel % SampleEvery = 0 /\ obs.sampleLabel <= iteration)

C7_Witness ==
    /\ obs.resumed
    /\ obs.sampled = "yes"
    /\ iteration = SampleEvery
    /\ obs.stepsRun % SampleEvery # 0

\* ---------------------------------------------------------------- C8
\* C8: actnorm initialisation happens at most once per model and before the
\* first gradient step: in a fresh run by the init handler's forward pass;
\* in a resumed run the model is marked initialised when the checkpoint is
\* loaded, before STARTED fires, so init does not initialise again, and
\* resume_training runs before init.
C8_ActnormInitOnce ==
    /\ obs.actnormInits <= 1
    /\ obs.optimSteps > 0 => actnormInited
    /\ (Fresh /\ InitRan /\ pc # "aborted") =>
          (actnormInited /\ obs.actnormInits = 1)
    /\ (Fresh /\ pc \in {"main", "started"}) => ~actnormInited
    /\ obs.resumed => (actnormInited /\ obs.actnormInits = 0)
    /\ (obs.resumed /\ AfterStarted) => obs.eventLog = <<"resume_training", "init">>
    /\ (pc = "started" /\ hidx = 1) => obs.eventLog = <<>>

C8_Witness ==
    /\ obs.resumed
    /\ obs.lastFwd.by = "init"
    /\ AfterStarted
    /\ actnormInited
    /\ obs.actnormInits = 0

\* ---------------------------------------------------------------- C9
\* C9: forward passes of a training step and of init run in train mode, those
\* of the evaluator and of sample in eval mode, also when the step follows a
\* sample or an evaluation that left the model in eval mode; only training
\* steps call backward and optimizer.step.
C9_ModelMode ==
    /\ obs.lastFwd.by \in {"step", "init"} => obs.lastFwd.mode = "train"
    /\ obs.lastFwd.by \in {"eval_step", "sample"} => obs.lastFwd.mode = "eval"
    /\ obs.lastFwd.by # "none" => obs.lastFwd.mode = modelMode
    /\ obs.optimSteps = obs.stepsRun
    /\ obs.backwardCalls = obs.stepsRun

C9_Witness ==
    /\ obs.lastFwd.by = "step"
    /\ obs.lastFwd.entry = "eval"
    /\ obs.lastFwd.mode = "train"
    /\ iteration = SampleEvery + 1

\* ---------------------------------------------------------------- C10
\* C10: scheduler.step is called once per completed epoch of the current
\* process and the scheduler is not restored on resume: after the j-th
\* completed epoch of the process (j >= 1) the multiplier is
\* min(1, (j + 1) / warmup), whatever epoch the run was resumed at.
C10_WarmupIndexedByProcessEpochs ==
    /\ obs.schedSteps = obs.epochsRun
          - (IF pc = "epoch_completed" /\ ~InLog(obs.eventLog, "evaluate")
             THEN 1 ELSE 0)
    /\ schedLastEpoch = obs.schedSteps
    /\ obs.schedSteps >= 1 => optLr = Min(args.warmup, obs.schedSteps + 1)
    /\ (pc = "main" /\ obs.schedSteps = 0) => optLr = Min(args.warmup, 1)

C10_Witness ==
    /\ obs.resumed
    /\ obs.loaded.epoch >= 1
    /\ obs.schedSteps >= 1
    /\ optLr < Min(args.warmup, obs.loaded.epoch + obs.schedSteps + 1)

====
